---- MODULE Spec2Model ----
(***************************************************************************)
(* Model of AIMLAPIModelProvider (src/model/aimlapi.go): one QueryText     *)
(* call of a provider, from the entry of the call to its return, together  *)
(* with the collaborators it consults (token counter, context-length       *)
(* table, chat-stream transport, sink, default-result constructor).        *)
(*                                                                         *)
(* Text is modelled as a sequence of characters (one-character strings);   *)
(* the question is a sequence of pieces of which the dry-run sentinel is   *)
(* one.  Collaborators that are not part of aimlapi.go answer              *)
(* nondeterministically, but as functions: the same arguments get the same *)
(* answer within a call.                                                   *)
(***************************************************************************)
EXTENDS Integers, Sequences, FiniteSets, TLC

VARIABLES
    subType,                \* p.subType, the configured model identifier
    pc,                     \* position of the call
    question,               \* argument: the question
    writerIsFlusher,        \* argument: writer implements http.Flusher
    model,                  \* local: the resolved model
    tokenCount,             \* local: GetTokenSize(model, question)
    contextLength,          \* local: getContextLength(p.subType)
    maxTokens,              \* local: contextLength - tokenCount
    requests,               \* requests handed to CreateChatCompletionStream
    respStream,             \* the stream handle: "none", "open", "closed"
    received,               \* fragments delivered by respStream.Recv()
    fate,                   \* what the loop did with each received fragment
    sink,                   \* events written to the writer, in order
    responseStringBuilder,  \* local: the accumulated answer
    isLeadingReturn,        \* local: leading mode
    modelResult,            \* returned *ModelResult (NoResult for nil)
    err,                    \* returned error ("nil" for none)
    log,                    \* collaborator calls, in the order made
    contextKey,             \* the model getContextLength was consulted with
    callerCanceled          \* the caller has canceled its own context

vars == <<subType, pc, question, writerIsFlusher, model, tokenCount,
          contextLength, maxTokens, requests, respStream, received, fate,
          sink, responseStringBuilder, isLeadingReturn, modelResult, err, log,
          contextKey, callerCanceled>>

----------------------------------------------------------------------------
(* Bounds of the model *)

\* largest answer of the token counter
MaxTokenCount == 2
\* largest context length of the context-length table
MaxContextLength == 1
\* largest token count of an accumulated answer
MaxResponseTokens == 1
\* largest token count handed to calculatePrice on its own
MaxPriceTokens == 3
\* largest number of chunks a stream delivers before it ends or fails
MaxChunks == 3

----------------------------------------------------------------------------
(* Text *)

NL == "\n"

Hi == <<"H", "i">>
There == <<NL, "t", "h", "e", "r", "e">>

\* the fragments a chunk may carry: "", "\n", "\n\n", "Hi", "\nthere", "x"
Fragments == { <<>>, <<NL>>, <<NL, NL>>, Hi, There, <<"x">> }

\* a longer stream the transport may also deliver: "\n", "\n\n", "Hi", "\nthere"
LongStream == << <<NL>>, <<NL, NL>>, Hi, There >>

\* the transport can deliver `data` after the fragments `sofar`: streams carry
\* up to MaxChunks chunks of any fragments, or are LongStream
CanDeliver(sofar, data) ==
    \/ Len(sofar) < MaxChunks
    \/ /\ Len(sofar) < Len(LongStream)
       /\ Append(sofar, data) = SubSeq(LongStream, 1, Len(sofar) + 1)

DryRunPrefix == "$CasibaseDryRun$"

\* the questions a caller may ask
Questions == { <<"hello">>, <<DryRunPrefix, "hello">> }

\* the configured model identifiers
Models == { "", "openai/gpt-4o", "unlisted/model" }

\* strings.HasPrefix(question, "$CasibaseDryRun$")
HasPrefix(q, prefix) == Len(q) >= 1 /\ q[1] = prefix

\* strings.Count(data, "\n")
RECURSIVE Count(_, _)
Count(data, c) ==
    IF data = <<>> THEN 0
    ELSE (IF Head(data) = c THEN 1 ELSE 0) + Count(Tail(data), c)

\* fmt.Fprintf(writer, "event: message\ndata: %s\n\n", data): the bytes written
Frame(data) == <<"event: message\ndata: ">> \o data \o <<NL, NL>>

----------------------------------------------------------------------------
(* Collaborators outside aimlapi.go *)

\* an answer of the token counter GetTokenSize(model, text): a count or an error
TokenAnswers == [ok : {TRUE}, n : 0..MaxTokenCount] \cup {[ok |-> FALSE, n |-> 0]}

\* an answer of the token counter for an accumulated answer text
ResponseAnswers == [ok : {TRUE}, n : 0..MaxResponseTokens] \cup {[ok |-> FALSE, n |-> 0]}

\* an answer of getContextLength(model)
ContextLengths == 1..MaxContextLength

\* the *ModelResult of a call that returns none
NoResult == <<>>

\* getDefaultModelResult(model, question, answer), given the token counts of
\* the question and of the answer: the counts and their sum, not yet priced
getDefaultModelResult(promptTokens, responseTokens) ==
    [PromptTokenCount   |-> promptTokens,
     ResponseTokenCount |-> responseTokens,
     TotalTokenCount    |-> promptTokens + responseTokens,
     TotalPrice         |-> 0,
     Currency           |-> ""]

\* getPrice(tokenCount, pricePerThousandTokens); with prices in 1/10000 USD
\* per thousand tokens the result is in 1/10000000 USD
getPrice(tokens, pricePerThousandTokens) == tokens * pricePerThousandTokens

\* AddPrices(price1, price2)
AddPrices(price1, price2) == price1 + price2

----------------------------------------------------------------------------
(* calculatePrice *)

\* priceTable, each price in 1/10000 USD per thousand tokens
priceTable ==
    [m \in { "openai/gpt-4o", "gpt-4o-2024-05-13", "gpt-4o-mini", "gpt-3.5-turbo",
             "claude-3-5-sonnet-20240620", "claude-3-haiku-20240307",
             "google/gemini-2.5-pro", "google/gemma-3-4b-it",
             "meta-llama/Meta-Llama-3.1-8B-Instruct-Turbo",
             "meta-llama/Llama-3-8b-chat-hf",
             "deepseek-chat", "deepseek-reasoner" } |->
        CASE m = "openai/gpt-4o"              -> <<50, 150>>
          [] m = "gpt-4o-2024-05-13"          -> <<50, 150>>
          [] m = "gpt-4o-mini"                -> <<30, 60>>
          [] m = "gpt-3.5-turbo"              -> <<10, 20>>
          [] m = "claude-3-5-sonnet-20240620" -> <<30, 150>>
          [] m = "claude-3-haiku-20240307"    -> <<8, 24>>
          [] m = "google/gemini-2.5-pro"      -> <<25, 75>>
          [] m = "google/gemma-3-4b-it"       -> <<4, 8>>
          [] m = "meta-llama/Meta-Llama-3.1-8B-Instruct-Turbo" -> <<2, 6>>
          [] m = "meta-llama/Llama-3-8b-chat-hf"               -> <<2, 6>>
          [] m = "deepseek-chat"              -> <<6, 12>>
          [] m = "deepseek-reasoner"          -> <<15, 30>>]

\* the model identifier the price table is consulted with
PriceKey(st, resolved) == st

\* calculatePrice with the input and the output price exchanged
calculatePriceSwapped(key, result) ==
    LET priceItem == IF key \in DOMAIN priceTable THEN priceTable[key] ELSE <<0, 0>>
        inputPrice  == getPrice(result.PromptTokenCount, priceItem[2])
        outputPrice == getPrice(result.ResponseTokenCount, priceItem[1])
    IN  [result EXCEPT !.TotalPrice = AddPrices(inputPrice, outputPrice),
                       !.Currency   = "USD"]

\* calculatePrice writing the priced token count over the total
calculatePriceOverTotal(key, result) ==
    LET priceItem == IF key \in DOMAIN priceTable THEN priceTable[key] ELSE <<0, 0>>
        inputPrice  == getPrice(result.PromptTokenCount, priceItem[1])
        outputPrice == getPrice(result.ResponseTokenCount, priceItem[2])
    IN  [result EXCEPT !.TotalPrice = AddPrices(inputPrice, outputPrice),
                       !.TotalTokenCount = result.PromptTokenCount,
                       !.Currency   = "USD"]

\* p.calculatePrice(modelResult): the result with cost and currency set
calculatePrice(key, result) ==
    LET priceItem == IF key \in DOMAIN priceTable THEN priceTable[key] ELSE <<0, 0>>
        inputPrice  == getPrice(result.PromptTokenCount, priceItem[1])
        outputPrice == getPrice(result.ResponseTokenCount, priceItem[2])
    IN  [result EXCEPT !.TotalPrice = AddPrices(inputPrice, outputPrice),
                       !.Currency   = "USD"]

----------------------------------------------------------------------------
(* The decisions of QueryText *)

\* IsFlusher with the capability check left out
IsFlusherUnchecked(w) == TRUE

\* flusher, ok := writer.(http.Flusher)
IsFlusher(w) == w

\* model := p.subType; if model == "" { model = "openai/gpt-4o" }
ResolveModel(st) == IF st = "" THEN "openai/gpt-4o" ELSE st

\* contextLength := getContextLength(p.subType): the model it is consulted with
ContextKey(st, resolved) == st

\* IsDryRun testing for equality with the sentinel instead of the prefix
IsDryRunEquality(q) == q = <<DryRunPrefix>>

\* strings.HasPrefix(question, "$CasibaseDryRun$")
IsDryRun(q) == HasPrefix(q, DryRunPrefix)

\* DryRunFits with >= for >
DryRunFitsInclusive(cl, result) == cl >= result.TotalTokenCount

\* if contextLength > modelResult.TotalTokenCount { return modelResult, nil }
DryRunFits(cl, result) == cl > result.TotalTokenCount

\* ComputeMaxTokens with the operands swapped
ComputeMaxTokensSwapped(cl, tc) == tc - cl

\* maxTokens := contextLength - tokenCount
ComputeMaxTokens(cl, tc) == cl - tc

\* ExceedsContext refusing a prompt that fills the context exactly
ExceedsContextInclusive(mt) == mt <= 0

\* ExceedsContext with the budget check left out
ExceedsContextUnchecked(mt) == FALSE

\* if maxTokens < 0 { return nil, fmt.Errorf(...) }
ExceedsContext(mt) == mt < 0

\* &aimlapi.ChatCompletionRequest{...}
ChatCompletionRequest(st, resolved, q, mt) ==
    [Model     |-> st,
     Messages  |-> << [Role |-> "system", Content |-> <<"You are a helpful assistant.">>],
                      [Role |-> "user",   Content |-> q] >>,
     Stream    |-> FALSE,
     MaxTokens |-> mt]

\* SkipsFragment testing for some newline instead of only newlines
SkipsFragmentAnyNewline(leading, data) ==
    leading /\ Len(data) # 0 /\ Count(data, NL) > 0

\* SkipsFragment without the len(data) != 0 guard
SkipsFragmentUnguarded(leading, data) ==
    leading /\ Count(data, NL) = Len(data)

\* the leading-blank test of the receive loop: the fragment is skipped (continue)
SkipsFragment(leading, data) ==
    leading /\ Len(data) # 0 /\ Count(data, NL) = Len(data)

\* NextLeadingReturn with an empty fragment ending leading mode
NextLeadingReturnEmptyEnds(leading, data) ==
    IF leading /\ (Len(data) = 0 \/ Count(data, NL) # Len(data))
    THEN FALSE
    ELSE leading

\* isLeadingReturn after the leading-blank test
NextLeadingReturn(leading, data) ==
    IF leading /\ Len(data) # 0 /\ Count(data, NL) # Len(data)
    THEN FALSE
    ELSE leading

\* WriteFailed with the error of the write ignored
WriteFailedIgnored(written) == FALSE

\* if _, err = fmt.Fprintf(writer, ...); err != nil { return nil, err }
WriteFailed(written) == ~written

\* Accumulate with the fragment put in front of the answer
AccumulatePrepended(builder, data) == data \o builder

\* responseStringBuilder.WriteString(data)
Accumulate(builder, data) == builder \o data

\* FlushSink with the flush left out
FlushSinkOmitted(lg) == lg

\* flusher.Flush()
FlushSink(lg) == Append(lg, "Flush")

\* IsEOF with every receive error taken for the end of the stream
IsEOFAnyError(streamErr) == TRUE

\* if streamErr == io.EOF { break }
IsEOF(streamErr) == streamErr = "EOF"

\* RunDeferred with Close called at the end of the function instead of deferred
RunDeferredAtEnd(lg, path) == IF path = "ok" THEN Append(lg, "Close") ELSE lg

\* defer respStream.Close(): what runs when the call leaves by `path`
RunDeferred(lg, path) == Append(lg, "Close")

----------------------------------------------------------------------------
(* State *)

Init ==
    /\ subType \in Models
    /\ pc = "idle"
    /\ question = <<>>
    /\ writerIsFlusher = FALSE
    /\ model = ""
    /\ tokenCount = 0
    /\ contextLength = 0
    /\ maxTokens = 0
    /\ requests = <<>>
    /\ respStream = "none"
    /\ received = <<>>
    /\ fate = <<>>
    /\ sink = <<>>
    /\ responseStringBuilder = <<>>
    /\ isLeadingReturn = FALSE
    /\ modelResult = NoResult
    /\ err = "nil"
    /\ log = <<>>
    /\ contextKey = "(none)"
    /\ callerCanceled = FALSE

\* return result, e from QueryText before a stream was acquired
ReturnEarly(result, e, lg) ==
    /\ pc' = "returned"
    /\ modelResult' = result
    /\ err' = e
    /\ log' = lg

\* QueryText, from its entry to the point where the request is to be issued:
\* sink check, model resolution, token count, context length, dry run, budget
QueryTextPlan(q, w) ==
    /\ pc = "idle"
    /\ question' = q
    /\ writerIsFlusher' = w
    /\ UNCHANGED <<subType, requests, respStream, received, fate, sink,
                   responseStringBuilder, isLeadingReturn, callerCanceled>>
    /\ LET lg0 == <<"getClient">>
           m   == ResolveModel(subType)
           lg1 == Append(lg0, "GetTokenSize")
           lg2 == Append(lg1, "getContextLength") IN
       IF ~IsFlusher(w)
       THEN /\ ReturnEarly(NoResult, "writer does not implement http.Flusher", lg0)
            /\ UNCHANGED <<model, tokenCount, contextLength, maxTokens, contextKey>>
       ELSE \E tc \in TokenAnswers :
            /\ model' = m
            /\ tokenCount' = tc.n
            /\ IF ~tc.ok
               THEN /\ ReturnEarly(NoResult, "token count error", lg1)
                    /\ UNCHANGED <<contextLength, maxTokens, contextKey>>
               ELSE \E cl \in ContextLengths :
                    /\ contextLength' = cl
                    /\ contextKey' = ContextKey(subType, m)
                    /\ IF IsDryRun(q)
                       THEN /\ UNCHANGED maxTokens
                            /\ \E built \in BOOLEAN :
                               LET result == getDefaultModelResult(tc.n, 0)
                                   lg3 == Append(lg2, "getDefaultModelResult") IN
                               IF ~built
                               THEN ReturnEarly(NoResult, "cannot calculate tokens", lg3)
                               ELSE IF DryRunFits(cl, result)
                                    THEN ReturnEarly(<<result>>, "nil", lg3)
                                    ELSE ReturnEarly(NoResult, "exceeds max tokens", lg3)
                       ELSE LET mt == ComputeMaxTokens(cl, tc.n) IN
                            /\ maxTokens' = mt
                            /\ IF ExceedsContext(mt)
                               THEN ReturnEarly(NoResult, "exceeds model max context", lg2)
                               ELSE /\ pc' = "create"
                                    /\ log' = lg2
                                    /\ UNCHANGED <<modelResult, err>>

\* client.CreateChatCompletionStream(ctx, &request), and defer respStream.Close()
CreateChatCompletionStream(ok) ==
    /\ pc = "create"
    /\ requests' = Append(requests, ChatCompletionRequest(subType, model, question, maxTokens))
    /\ IF ok
       THEN /\ respStream' = "open"
            /\ isLeadingReturn' = TRUE
            /\ pc' = "loop"
            /\ log' = Append(log, "CreateChatCompletionStream")
            /\ UNCHANGED <<modelResult, err>>
       ELSE /\ ReturnEarly(NoResult, "create stream error",
                           Append(log, "CreateChatCompletionStream"))
            /\ UNCHANGED <<respStream, isLeadingReturn>>
    /\ UNCHANGED <<contextKey, callerCanceled>>
    /\ UNCHANGED <<subType, question, writerIsFlusher, model, tokenCount,
                   contextLength, maxTokens, received, fate, sink,
                   responseStringBuilder>>

\* leave QueryText after the stream was acquired: the deferred Close runs
ReturnWithStream(result, e, lg, path) ==
    /\ pc' = IF path = "panic" THEN "panicked" ELSE "returned"
    /\ modelResult' = result
    /\ err' = e
    /\ log' = RunDeferred(lg, path)
    /\ respStream' = IF Len(RunDeferred(lg, path)) > Len(lg) THEN "closed" ELSE respStream

\* one iteration of the receive loop in which Recv delivers a chunk carrying
\* `data`; `written` is whether the write to the sink succeeds
RecvChunk(data, written) ==
    /\ pc = "loop"
    /\ CanDeliver(received, data)
    /\ received' = Append(received, data)
    /\ UNCHANGED <<contextKey, callerCanceled>>
    /\ UNCHANGED <<subType, question, writerIsFlusher, model, tokenCount,
                   contextLength, maxTokens, requests, contextKey, callerCanceled>>
    /\ LET lg1 == Append(log, "Recv:chunk") IN
       IF SkipsFragment(isLeadingReturn, data)
       THEN /\ fate' = Append(fate, "skipped")
            /\ log' = lg1
            /\ UNCHANGED <<pc, respStream, sink, responseStringBuilder,
                           isLeadingReturn, modelResult, err>>
       ELSE LET lg2 == Append(lg1, IF written THEN "Fprintf" ELSE "Fprintf:error") IN
            /\ isLeadingReturn' = NextLeadingReturn(isLeadingReturn, data)
            /\ sink' = IF written THEN Append(sink, Frame(data)) ELSE sink
            /\ IF WriteFailed(written)
               THEN /\ fate' = Append(fate, "write failed")
                    /\ ReturnWithStream(NoResult, "write error", lg2, "write error")
                    /\ UNCHANGED responseStringBuilder
               ELSE /\ fate' = Append(fate, "forwarded")
                    /\ responseStringBuilder' = Accumulate(responseStringBuilder, data)
                    /\ log' = FlushSink(lg2)
                    /\ UNCHANGED <<pc, respStream, modelResult, err>>

\* Recv delivers a chunk without choices: completion.Choices[0] panics
RecvNoChoices ==
    /\ pc = "loop"
    /\ Len(received) < MaxChunks
    /\ ReturnWithStream(NoResult, "index out of range", Append(log, "Recv:nochoices"), "panic")
    /\ UNCHANGED <<contextKey, callerCanceled>>
    /\ UNCHANGED <<subType, question, writerIsFlusher, model, tokenCount,
                   contextLength, maxTokens, requests, received, fate, sink,
                   responseStringBuilder, isLeadingReturn>>

\* Recv fails with streamErr: io.EOF breaks out of the loop, any other error
\* is returned
RecvFails(streamErr) ==
    /\ pc = "loop"
    /\ LET lg1 == Append(log, IF streamErr = "EOF" THEN "Recv:EOF" ELSE "Recv:error") IN
       IF IsEOF(streamErr)
       THEN /\ pc' = "account"
            /\ log' = lg1
            /\ UNCHANGED <<respStream, modelResult, err>>
       ELSE ReturnWithStream(NoResult, streamErr, lg1, "stream error")
    /\ UNCHANGED <<contextKey, callerCanceled>>
    /\ UNCHANGED <<subType, question, writerIsFlusher, model, tokenCount,
                   contextLength, maxTokens, requests, received, fate, sink,
                   responseStringBuilder, isLeadingReturn>>

\* the model identifier the accounting step builds the result for
AccountKey(st, resolved) == st

\* the accounting step: getDefaultModelResult, calculatePrice, return
Account(prompt, response) ==
    /\ pc = "account"
    /\ AccountKey(subType, model) = model => prompt = [ok |-> TRUE, n |-> tokenCount]
    /\ responseStringBuilder = <<>> => response = [ok |-> TRUE, n |-> 0]
    /\ LET lg1 == Append(log, "getDefaultModelResult") IN
       IF ~prompt.ok \/ ~response.ok
       THEN ReturnWithStream(NoResult, "default model result error", lg1, "result error")
       ELSE ReturnWithStream(
                <<calculatePrice(PriceKey(subType, model),
                                 getDefaultModelResult(prompt.n, response.n))>>,
                "nil", Append(lg1, "calculatePrice"), "ok")
    /\ UNCHANGED <<contextKey, callerCanceled>>
    /\ UNCHANGED <<subType, question, writerIsFlusher, model, tokenCount,
                   contextLength, maxTokens, requests, received, fate, sink,
                   responseStringBuilder, isLeadingReturn>>

Next ==
    \/ \E q \in Questions, w \in BOOLEAN : QueryTextPlan(q, w)
    \/ \E ok \in BOOLEAN : CreateChatCompletionStream(ok)
    \/ \E data \in Fragments, written \in BOOLEAN : RecvChunk(data, written)
    \/ RecvNoChoices
    \/ \E streamErr \in {"EOF", "stream error"} : RecvFails(streamErr)
    \/ \E prompt \in TokenAnswers, response \in ResponseAnswers : Account(prompt, response)

Spec == Init /\ [][Next]_vars

\* the caller cancels its own context while the receive loop runs; QueryText
\* takes no context and hands context.Background() to the transport, so no
\* variable of the call changes
Cancel ==
    /\ pc = "loop"
    /\ ~callerCanceled
    /\ callerCanceled' = TRUE
    /\ UNCHANGED <<subType, pc, question, writerIsFlusher, model, tokenCount,
                   contextLength, maxTokens, requests, respStream, received, fate,
                   sink, responseStringBuilder, isLeadingReturn, modelResult, err,
                   log, contextKey>>

NextCancel == Next \/ Cancel

\* the call together with a caller that may cancel
CancelSpec == Init /\ [][NextCancel]_vars

----------------------------------------------------------------------------
(* calculatePrice on its own *)

\* the models calculatePrice is tried with: the table's, and two absent ones
PricedModels == DOMAIN priceTable \cup {"", "unlisted/model"}

\* a provider and a result of the default-result constructor to be priced
PriceInit ==
    /\ subType \in PricedModels
    /\ pc = "price"
    /\ \E p \in 0..MaxPriceTokens, r \in 0..MaxPriceTokens :
          modelResult = <<getDefaultModelResult(p, r)>>
    /\ question = <<>>
    /\ writerIsFlusher = FALSE
    /\ model = ""
    /\ tokenCount = 0
    /\ contextLength = 0
    /\ maxTokens = 0
    /\ requests = <<>>
    /\ respStream = "none"
    /\ received = <<>>
    /\ fate = <<>>
    /\ sink = <<>>
    /\ responseStringBuilder = <<>>
    /\ isLeadingReturn = FALSE
    /\ err = "(none)"
    /\ log = <<>>
    /\ contextKey = "(none)"
    /\ callerCanceled = FALSE

\* err := p.calculatePrice(modelResult)
CalculatePrice ==
    /\ pc = "price"
    /\ modelResult' = <<calculatePrice(PriceKey(subType, ResolveModel(subType)),
                                       modelResult[1])>>
    /\ err' = "nil"
    /\ pc' = "priced"
    /\ log' = Append(log, "calculatePrice")
    /\ UNCHANGED <<subType, question, writerIsFlusher, model, tokenCount,
                   contextLength, maxTokens, requests, respStream, received, fate,
                   sink, responseStringBuilder, isLeadingReturn, contextKey,
                   callerCanceled>>

PriceNext == CalculatePrice

PriceSpec == PriceInit /\ [][PriceNext]_vars

----------------------------------------------------------------------------
(* Vocabulary of the properties *)

\* the fragment contains a character that is not a newline
HasContent(data) == \E k \in 1..Len(data) : data[k] # NL

\* no fragment containing a non-newline character was received before the i-th
NoContentBefore(i) == \A j \in 1..(i - 1) : ~HasContent(received[j])

\* the i-th received fragment is a non-empty run of newlines
IsBlank(i) == received[i] # <<>> /\ ~HasContent(received[i])

\* number of occurrences of x in the sequence s
CountOf(s, x) == Cardinality({k \in 1..Len(s) : s[k] = x})

\* the first n received fragments that the loop forwarded, in order
RECURSIVE ForwardedFragments(_)
ForwardedFragments(n) ==
    IF n = 0 THEN <<>>
    ELSE IF fate[n] = "forwarded"
         THEN Append(ForwardedFragments(n - 1), received[n])
         ELSE ForwardedFragments(n - 1)

\* the concatenation of a sequence of fragments
RECURSIVE Concat(_)
Concat(fs) == IF fs = <<>> THEN <<>> ELSE Head(fs) \o Concat(Tail(fs))

\* the sink holds one event per forwarded fragment, in order, each flushed, and
\* the accumulated answer is their concatenation
SinkMatchesFate ==
    /\ Len(fate) = Len(received)
    /\ LET forwarded == ForwardedFragments(Len(fate)) IN
          /\ sink = [k \in 1..Len(forwarded) |-> Frame(forwarded[k])]
          /\ responseStringBuilder = Concat(forwarded)
    /\ CountOf(log, "Flush") = Len(sink)
    /\ CountOf(log, "Fprintf") = Len(sink)
    /\ CountOf(log, "Fprintf:error") = CountOf(fate, "write failed")

\* the question carries the dry-run sentinel prefix
HasSentinel == Len(question) >= 1 /\ question[1] = "$CasibaseDryRun$"

\* the call returned to its caller
Returned == pc = "returned"

\* the call was made with a sink that can flush, and the token counter answered
Planned == pc # "idle" /\ writerIsFlusher /\ "getContextLength" \in {log[k] : k \in 1..Len(log)}

\* nothing was asked of the transport and nothing reached the sink
NoSideEffects ==
    /\ requests = <<>>
    /\ sink = <<>>
    /\ respStream = "none"
    /\ \A k \in 1..Len(log) :
          log[k] \notin {"CreateChatCompletionStream", "Fprintf", "Fprintf:error", "Flush"}

----------------------------------------------------------------------------
(* Properties *)

\* C1: in the receive loop every non-empty fragment of only newlines that
\* arrives before the first fragment containing a non-newline character is
\* discarded (no write, no flush, not accumulated), and every fragment from
\* the first one containing a non-newline character onward is passed to the
\* sink, later all-newline fragments included; the stream
\* ["\n", "\n\n", "Hi", "\nthere"] forwards exactly ["Hi", "\nthere"] and
\* accumulates "Hi\nthere".
LeadingBlankSuppression ==
    /\ SinkMatchesFate
    /\ \A i \in 1..Len(received) :
          /\ (IsBlank(i) /\ NoContentBefore(i)) => fate[i] = "skipped"
          /\ ~NoContentBefore(i + 1) => fate[i] # "skipped"
    /\ (received = LongStream /\ fate[4] = "forwarded")
          => /\ sink = << Frame(Hi), Frame(There) >>
             /\ responseStringBuilder = Hi \o There

\* the stream ["\n", "\n\n", "Hi", "\nthere"] was relayed to its end
LeadingBlankSuppressionWitness ==
    /\ Returned /\ err = "nil"
    /\ received = LongStream
    /\ fate = << "skipped", "skipped", "forwarded", "forwarded" >>
    /\ sink = << Frame(Hi), Frame(There) >>

\* C2 as stated: an empty fragment received in leading mode ends leading mode,
\* so every fragment received after it is forwarded, a non-empty all-newline
\* fragment included.
EmptyFragmentEndsLeadingMode ==
    \A i \in 1..Len(received) :
        (received[i] = <<>> /\ NoContentBefore(i))
            => \A k \in (i + 1)..Len(received) : fate[k] # "skipped"

\* C2 amended: an empty fragment received in leading mode leaves leading mode
\* active; leading mode ends only at the first fragment containing a
\* non-newline character, so a non-empty all-newline fragment received after
\* the empty one and before any such fragment is still discarded.
EmptyFragmentKeepsLeadingMode ==
    /\ respStream # "none" => (isLeadingReturn <=> NoContentBefore(Len(received) + 1))
    /\ \A i \in 1..Len(received) :
          (received[i] = <<>> /\ NoContentBefore(i))
              => \A k \in (i + 1)..Len(received) :
                    (IsBlank(k) /\ NoContentBefore(k)) => fate[k] = "skipped"

\* the stream ["", "\n", "x"] was relayed: "\n" was discarded after the empty
\* fragment
EmptyFragmentKeepsLeadingModeWitness ==
    /\ received = << <<>>, <<NL>>, <<"x">> >>
    /\ fate = << "forwarded", "skipped", "forwarded" >>
    /\ ~isLeadingReturn

\* C3 as stated: an empty fragment received in leading mode is not itself
\* forwarded; for the stream ["", "x"] the events written are exactly ["x"].
EmptyFragmentNotForwarded ==
    /\ \A i \in 1..Len(received) :
          (received[i] = <<>> /\ NoContentBefore(i)) => fate[i] # "forwarded"
    /\ (received = << <<>>, <<"x">> >> /\ fate[2] = "forwarded")
          => sink = << Frame(<<"x">>) >>

\* C3 amended: an empty fragment is never discarded, in leading mode or after:
\* it is written to the sink as an event with empty data; for the stream
\* ["", "x"] the events written are exactly [event(""), event("x")].
EmptyFragmentForwarded ==
    /\ \A i \in 1..Len(received) : received[i] = <<>> => fate[i] # "skipped"
    /\ (received = << <<>>, <<"x">> >> /\ fate[2] = "forwarded")
          => sink = << Frame(<<>>), Frame(<<"x">>) >>

\* the stream ["", "x"] was relayed to its end
EmptyFragmentForwardedWitness ==
    /\ Returned /\ err = "nil"
    /\ received = << <<>>, <<"x">> >>
    /\ sink = << Frame(<<>>), Frame(<<"x">>) >>

\* C4: a live call that fails because the token counter returned an error or
\* because promptTokenCount > contextLength has invoked the transport zero
\* times and has written and flushed nothing; and a live call with
\* promptTokenCount > contextLength does fail that way.
PreCallFailureNoSideEffects ==
    /\ err \in {"token count error", "exceeds model max context"}
          => Returned /\ modelResult = NoResult /\ NoSideEffects
    /\ (Planned /\ ~HasSentinel /\ tokenCount > contextLength)
          => err = "exceeds model max context"

\* a live call failed with promptTokenCount > contextLength
PreCallFailureNoSideEffectsWitness ==
    /\ Returned /\ Planned /\ ~HasSentinel
    /\ tokenCount > contextLength
    /\ err = "exceeds model max context"

\* C5: every request handed to the transport carries
\* MaxTokens = contextLength - promptTokenCount, and that value is >= 0.
RequestMaxTokensNonNegative ==
    \A k \in 1..Len(requests) :
        /\ requests[k].MaxTokens = contextLength - tokenCount
        /\ requests[k].MaxTokens >= 0

\* a request was issued with the whole context used by the prompt
RequestMaxTokensNonNegativeWitness ==
    /\ Len(requests) = 1
    /\ tokenCount = contextLength
    /\ requests[1].MaxTokens = 0

\* C6: a dry-run call with a push-capable sink and a succeeding token counter
\* returns an error when tokenCount(question) >= contextLength, and otherwise
\* a result whose responseTokenCount is 0 and whose totalTokenCount equals
\* promptTokenCount.
DryRunOutcome ==
    (Planned /\ HasSentinel /\ err # "cannot calculate tokens")
        => /\ Returned
           /\ IF tokenCount >= contextLength
              THEN err # "nil" /\ modelResult = NoResult
              ELSE /\ err = "nil"
                   /\ Len(modelResult) = 1
                   /\ modelResult[1].PromptTokenCount = tokenCount
                   /\ modelResult[1].ResponseTokenCount = 0
                   /\ modelResult[1].TotalTokenCount = modelResult[1].PromptTokenCount

\* a dry run was refused with tokenCount(question) = contextLength
DryRunOutcomeWitness ==
    /\ Returned /\ Planned /\ HasSentinel
    /\ tokenCount = contextLength
    /\ err = "exceeds max tokens"

\* C7: a dry-run call never invokes the transport and never writes to or
\* flushes the sink, whether it returns a result or an error.
DryRunNoSideEffects ==
    (pc # "idle" /\ HasSentinel) => Returned /\ NoSideEffects

\* a dry run returned a result
DryRunNoSideEffectsWitness ==
    /\ Returned /\ HasSentinel
    /\ err = "nil" /\ modelResult # NoResult

\* C8: with a sink that cannot flush the call fails with the unsupported-sink
\* error before the token counter is consulted, before the transport is
\* invoked and without a write to the sink, for dry-run questions too.
UnsupportedSinkFailsFirst ==
    (pc # "idle" /\ ~writerIsFlusher)
        => /\ Returned
           /\ err = "writer does not implement http.Flusher"
           /\ modelResult = NoResult
           /\ NoSideEffects
           /\ \A k \in 1..Len(log) :
                 log[k] \notin {"GetTokenSize", "getContextLength", "getDefaultModelResult"}

\* a dry-run question was asked with a sink that cannot flush
UnsupportedSinkFailsFirstWitness ==
    /\ Returned /\ ~writerIsFlusher /\ HasSentinel
    /\ err = "writer does not implement http.Flusher"

\* C9: once the stream handle has been acquired it is closed exactly once
\* before the call ends, on every exit path (end of stream, receive failure,
\* write failure, failure of the accounting step), and not before.
StreamClosedExactlyOnce ==
    /\ pc \in {"returned", "panicked"}
          => /\ respStream \in {"none", "closed"}
             /\ CountOf(log, "Close") = (IF respStream = "none" THEN 0 ELSE 1)
    /\ pc \in {"loop", "account"}
          => respStream = "open" /\ CountOf(log, "Close") = 0
    /\ pc \in {"idle", "create"} => respStream = "none"

\* the call ended on a failed write with the stream closed
StreamClosedExactlyOnceWitness ==
    /\ Returned /\ err = "write error"
    /\ respStream = "closed"
    /\ log[Len(log)] = "Close"

\* C10: end of stream is the only receive outcome that leads to the
\* accounting step and a returned result; any other receive failure makes the
\* call return that error with no result and no price calculation, with no
\* further receive, write or request, and with every event already written
\* still in the sink.
OnlyEOFLeadsToAccounting ==
    /\ (pc = "account" \/ (respStream # "none" /\ modelResult # NoResult)
          \/ (respStream # "none" /\ \E k \in 1..Len(log) :
                log[k] \in {"getDefaultModelResult", "calculatePrice"}))
          => /\ CountOf(log, "Recv:EOF") = 1
             /\ CountOf(log, "Recv:error") = 0
    /\ CountOf(log, "Recv:error") > 0
          => /\ Returned
             /\ err = "stream error"
             /\ modelResult = NoResult
             /\ SubSeq(log, Len(log) - 1, Len(log)) = << "Recv:error", "Close" >>
             /\ CountOf(log, "Recv:error") = 1
             /\ CountOf(log, "calculatePrice") = 0
             /\ CountOf(log, "getDefaultModelResult") = 0
             /\ Len(requests) = 1
             /\ SinkMatchesFate

\* a receive failed after an event had been written
OnlyEOFLeadsToAccountingWitness ==
    /\ Returned /\ err = "stream error"
    /\ received = << Hi >>
    /\ sink = << Frame(Hi) >>

----------------------------------------------------------------------------
(* Vocabulary of the properties of the relay *)

\* the fragment carried by the k-th event in the sink
SinkData(k) == SubSeq(sink[k], 2, Len(sink[k]) - 2)

\* the fragments carried by the events in the sink, in order
SinkFragments == [k \in 1..Len(sink) |-> SinkData(k)]

\* a is b with some elements left out, the order kept
RECURSIVE IsSubsequence(_, _)
IsSubsequence(a, b) ==
    IF a = <<>> THEN TRUE
    ELSE IF b = <<>> THEN FALSE
    ELSE IF Head(a) = Head(b) THEN IsSubsequence(Tail(a), Tail(b))
    ELSE IsSubsequence(a, Tail(b))

\* the position in the log of the receive of the j-th fragment
RecvPosition(j) ==
    CHOOSE k \in 1..Len(log) :
        /\ log[k] = "Recv:chunk"
        /\ Cardinality({i \in 1..k : log[i] = "Recv:chunk"}) = j

\* the log entries that are receives
RecvEntries == {"Recv:chunk", "Recv:EOF", "Recv:error", "Recv:nochoices"}

\* C11: every successful write of a forwarded fragment is followed by a flush
\* of the sink before the next receive, the event written is exactly
\* "event: message\ndata: <fragment>\n\n", one per forwarded fragment, and a
\* suppressed fragment causes neither a write nor a flush.
FlushFollowsWrite ==
    /\ \A k \in 1..Len(log) :
          /\ log[k] = "Fprintf" => (k < Len(log) /\ log[k + 1] = "Flush")
          /\ log[k] = "Flush" => (k > 1 /\ log[k - 1] = "Fprintf")
    /\ Len(sink) = CountOf(fate, "forwarded")
    /\ \A k \in 1..Len(sink) :
          sink[k] = <<"event: message\ndata: ">>
                        \o ForwardedFragments(Len(fate))[k] \o <<"\n", "\n">>
    /\ \A j \in 1..Len(received) :
          (IsBlank(j) /\ NoContentBefore(j))
              => \/ RecvPosition(j) = Len(log)
                 \/ log[RecvPosition(j) + 1] \in RecvEntries

\* two fragments were written and flushed, one after the other
FlushFollowsWriteWitness ==
    /\ pc = "loop"
    /\ received = << <<NL>>, Hi, There >>
    /\ log[Len(log)] = "Flush"
    /\ sink = << <<"event: message\ndata: ", "H", "i", "\n", "\n">>,
                 <<"event: message\ndata: ", "\n", "t", "h", "e", "r", "e", "\n", "\n">> >>

\* C12: at every point of a call the fragments written to the sink are the
\* fragments received with some left out, in the order received and none
\* twice, and the accumulated answer, which is the answer the accounting step
\* is given, is the concatenation in that order of the fragments written.
OrderPreservingRelay ==
    /\ IsSubsequence(SinkFragments, received)
    /\ Len(sink) <= Len(received)
    /\ responseStringBuilder = Concat(SinkFragments)

\* the accounting step is reached with an answer of two fragments
OrderPreservingRelayWitness ==
    /\ pc = "account"
    /\ received = << <<NL>>, Hi, There >>
    /\ responseStringBuilder = <<"H", "i", "\n", "t", "h", "e", "r", "e">>

\* C13: when the write of a forwarded fragment fails the call aborts at once:
\* it returns the write error and no result, the fragment is not added to the
\* accumulated answer, the sink is not flushed for it, no further chunk is
\* received and no price is calculated.
WriteFailureAborts ==
    CountOf(log, "Fprintf:error") > 0
        => /\ Returned
           /\ err = "write error"
           /\ modelResult = NoResult
           /\ CountOf(log, "Fprintf:error") = 1
           /\ SubSeq(log, Len(log) - 2, Len(log)) = << "Recv:chunk", "Fprintf:error", "Close" >>
           /\ CountOf(log, "Flush") = Len(sink)
           /\ responseStringBuilder = Concat(SinkFragments)
           /\ CountOf(log, "getDefaultModelResult") = 0
           /\ CountOf(log, "calculatePrice") = 0

\* the write of the second forwarded fragment failed
WriteFailureAbortsWitness ==
    /\ Returned /\ err = "write error"
    /\ received = << Hi, There >>
    /\ sink = << Frame(Hi) >>
    /\ responseStringBuilder = Hi

----------------------------------------------------------------------------
(* Properties of the resolved model and of cancellation *)

\* the model a call resolves to: the configured one, or the default
ResolvedModel == IF subType = "" THEN "openai/gpt-4o" ELSE subType

\* a live call ran to its end and returned a result
Completed == Returned /\ err = "nil" /\ respStream = "closed" /\ Len(modelResult) = 1

\* C14: the price lookup is keyed by the resolved model; with an empty
\* configured model the cost of a completed call is computed with the entry
\* of "openai/gpt-4o" (input 0.005, output 0.015 per thousand tokens), not
\* with the zero-cost fallback.
PriceKeyedByResolvedModel ==
    Completed
        => LET entry == IF ResolvedModel \in DOMAIN priceTable
                        THEN priceTable[ResolvedModel] ELSE <<0, 0>> IN
           /\ modelResult[1].TotalPrice =
                  modelResult[1].PromptTokenCount * entry[1]
                + modelResult[1].ResponseTokenCount * entry[2]
           /\ subType = ""
                 => modelResult[1].TotalPrice =
                        modelResult[1].PromptTokenCount * 50
                      + modelResult[1].ResponseTokenCount * 150

\* C15: the context length that bounds the request is looked up for the
\* resolved model and every request handed to the transport names the
\* resolved model; the model field of a request is never empty.
RequestUsesResolvedModel ==
    /\ contextKey # "(none)" => contextKey = ResolvedModel
    /\ \A k \in 1..Len(requests) :
          /\ requests[k].Model = ResolvedModel
          /\ requests[k].Model # ""

\* C18: when the caller's context is canceled while the receive loop is in
\* flight, the call returns an error, with no result and no cost accounting,
\* and the stream handle released.
CancelAbortsCall ==
    (callerCanceled /\ Returned)
        => /\ err # "nil"
           /\ modelResult = NoResult
           /\ CountOf(log, "calculatePrice") = 0
           /\ respStream = "closed"

----------------------------------------------------------------------------
(* Properties of the accounting and of the budget *)

\* C16: calculatePrice sets the cost to
\* promptTokenCount/1000 * inputPrice + responseTokenCount/1000 * outputPrice
\* for every model of the price table and every pair of token counts, and to
\* 0 for every model absent from the table; it returns nil and sets the
\* currency to "USD" in both cases.  (Costs are in 1/10000000 USD, prices in
\* 1/10000 USD per thousand tokens.)
PriceFormula ==
    pc = "priced"
        => /\ err = "nil"
           /\ modelResult[1].Currency = "USD"
           /\ IF subType \in DOMAIN priceTable
              THEN modelResult[1].TotalPrice =
                       modelResult[1].PromptTokenCount * priceTable[subType][1]
                     + modelResult[1].ResponseTokenCount * priceTable[subType][2]
              ELSE modelResult[1].TotalPrice = 0
           /\ subType = "gpt-4o-mini"
                 => modelResult[1].TotalPrice =
                        modelResult[1].PromptTokenCount * 30
                      + modelResult[1].ResponseTokenCount * 60

\* 2 prompt and 3 response tokens of "gpt-4o-mini" were priced
PriceFormulaWitness ==
    /\ pc = "priced"
    /\ subType = "gpt-4o-mini"
    /\ modelResult[1].PromptTokenCount = 2
    /\ modelResult[1].ResponseTokenCount = 3
    /\ modelResult[1].TotalPrice = 240

\* C17: every result QueryText returns, dry-run or live, has
\* totalTokenCount = promptTokenCount + responseTokenCount; the pricing step
\* leaves the token counts as the default-result constructor produced them.
TotalIsSum ==
    modelResult # NoResult
        => /\ modelResult[1].TotalTokenCount =
                  modelResult[1].PromptTokenCount + modelResult[1].ResponseTokenCount
           /\ subType # "" => modelResult[1].PromptTokenCount = tokenCount
           /\ responseStringBuilder = <<>> => modelResult[1].ResponseTokenCount = 0

\* a live call returned a priced result with prompt and response tokens
TotalIsSumWitness ==
    /\ Completed
    /\ modelResult[1].Currency = "USD"
    /\ modelResult[1].PromptTokenCount = 1
    /\ modelResult[1].ResponseTokenCount = 1
    /\ modelResult[1].TotalTokenCount = 2

\* the call passed its feasibility check: a dry run returned a result, a live
\* call went on to issue its request
Accepted ==
    IF HasSentinel
    THEN err = "nil" /\ modelResult # NoResult
    ELSE err # "exceeds model max context"

\* C19 as stated: the dry-run check and the live budget check agree for every
\* promptTokenCount and contextLength, promptTokenCount = contextLength
\* included: a dry run is accepted exactly when the live check passes on the
\* same numbers, and a live call exactly when the dry-run check does.
DryRunAgreesWithLive ==
    (Planned /\ err # "cannot calculate tokens")
        => IF HasSentinel
           THEN Accepted <=> ~ExceedsContext(ComputeMaxTokens(contextLength, tokenCount))
           ELSE Accepted <=> DryRunFits(contextLength, getDefaultModelResult(tokenCount, 0))

\* C19 amended: a dry run is accepted exactly when
\* promptTokenCount < contextLength and a live call exactly when
\* promptTokenCount <= contextLength; the two checks agree except when
\* promptTokenCount = contextLength, where the dry run is refused and the live
\* call issues a request with MaxTokens 0.
DryRunStricterThanLive ==
    (Planned /\ err # "cannot calculate tokens")
        => /\ Accepted <=> \/ tokenCount < contextLength
                           \/ tokenCount = contextLength /\ ~HasSentinel
           /\ (tokenCount = contextLength /\ ~HasSentinel)
                 => \A k \in 1..Len(requests) : requests[k].MaxTokens = 0

\* a live call with promptTokenCount = contextLength passed its budget check
DryRunStricterThanLiveWitness ==
    /\ Planned /\ ~HasSentinel
    /\ tokenCount = contextLength
    /\ pc = "create"

\* C20: every request issued fits the context window: the token count of the
\* messages sent (the system preamble, at least one token, and the question)
\* plus the request's MaxTokens is at most contextLength.
RequestFitsContext ==
    \A k \in 1..Len(requests) :
        \A preambleTokens \in 1..MaxTokenCount :
            preambleTokens + tokenCount + requests[k].MaxTokens <= contextLength

====
